---- MODULE Spec2Model ----
(***************************************************************************)
(* Model of the two batch scripts of the repository:                      *)
(*   Task 2/Task2.py  pipeline A, the unemployment-series aggregator      *)
(*   Task 3/Task3.py  pipeline B, the car-price model trainer             *)
(*                                                                         *)
(* Column names and text cells are sequences of one-character strings, so *)
(* that lower(), replace(), strip(), startswith() and substring tests are *)
(* computed character by character as Python computes them.  A table is a *)
(* sequence of columns [name, dtype, cells]; None is the empty sequence   *)
(* (pandas never yields an empty column name, and Python treats None and  *)
(* "" alike in the truth tests the scripts make).                         *)
(***************************************************************************)
EXTENDS Integers, Sequences, FiniteSets, TLC

VARIABLES
    pc,          \* position of the running script or function
    input,       \* the CSV file at the input path: a table, or NoFile
    args,        \* command-line / function arguments
    df,          \* the table being worked on
    ret,         \* value returned (or error raised) by the function under test
    target_col,  \* Task3 main: resolved target column
    df_proc,     \* Task3 main: preprocessed table
    X,           \* Task3 main: feature matrix
    y,           \* Task3 main: label column
    exit_code,   \* process exit status
    files,       \* files and directories created by the run
    dcol,        \* Task2 prepare_dataframe: detected date column
    rcol,        \* Task2 prepare_dataframe: detected rate column
    rate_clean,  \* Task2 main: name of the column handed to monthly_timeseries
    monthly      \* Task2 main: the monthly series

vars == <<pc, input, args, df, ret, target_col, df_proc, X, y, exit_code,
          files, dcol, rcol, rate_clean, monthly>>

None == <<>>

(***************************************************************************)
(* Python str operations                                                   *)
(***************************************************************************)
UpperChars == <<"A","B","C","D","E","F","G","H","I","J","K","L","M",
                "N","O","P","Q","R","S","T","U","V","W","X","Y","Z">>
LowerChars == <<"a","b","c","d","e","f","g","h","i","j","k","l","m",
                "n","o","p","q","r","s","t","u","v","w","x","y","z">>

\* str.lower() on one character
LowerChar(ch) ==
    IF \E i \in DOMAIN UpperChars : UpperChars[i] = ch
    THEN LowerChars[CHOOSE i \in DOMAIN UpperChars : UpperChars[i] = ch]
    ELSE ch

\* str.lower()
Lower(s) == [i \in 1..Len(s) |-> LowerChar(s[i])]

\* str.replace(old, new) for one-character old and new
Replace(s, old, new) == [i \in 1..Len(s) |-> IF s[i] = old THEN new ELSE s[i]]

\* str.replace(old, "") for a one-character old
RECURSIVE Remove(_, _)
Remove(s, old) ==
    IF s = <<>> THEN <<>>
    ELSE IF Head(s) = old THEN Remove(Tail(s), old)
    ELSE <<Head(s)>> \o Remove(Tail(s), old)

\* str.startswith(prefix)
StartsWith(s, prefix) ==
    /\ Len(prefix) <= Len(s)
    /\ SubSeq(s, 1, Len(prefix)) = prefix

\* str.endswith(suffix)
EndsWith(s, suffix) ==
    /\ Len(suffix) <= Len(s)
    /\ SubSeq(s, Len(s) - Len(suffix) + 1, Len(s)) = suffix

\* sub in s
Contains(s, sub) ==
    \E i \in 1..(Len(s) - Len(sub) + 1) : SubSeq(s, i, i + Len(sub) - 1) = sub

\* str.strip()
RECURSIVE LStrip(_)
LStrip(s) == IF s # <<>> /\ Head(s) = " " THEN LStrip(Tail(s)) ELSE s
RECURSIVE RStrip(_)
RStrip(s) ==
    IF s # <<>> /\ s[Len(s)] = " " THEN RStrip(SubSeq(s, 1, Len(s) - 1)) ELSE s
Strip(s) == RStrip(LStrip(s))

\* characters in code-point order, as Python's sorted() compares strings
CharOrder == <<" ","%",",","-",".","0","1","2","3","4","5","6","7","8","9",
               "A","B","C","D","E","F","G","H","I","J","K","L","M",
               "N","O","P","Q","R","S","T","U","V","W","X","Y","Z","_",
               "a","b","c","d","e","f","g","h","i","j","k","l","m",
               "n","o","p","q","r","s","t","u","v","w","x","y","z">>
Ord(ch) == CHOOSE i \in DOMAIN CharOrder : CharOrder[i] = ch

\* a < b on str
RECURSIVE StrLess(_, _)
StrLess(a, b) ==
    IF b = <<>> THEN FALSE
    ELSE IF a = <<>> THEN TRUE
    ELSE IF Head(a) = Head(b) THEN StrLess(Tail(a), Tail(b))
    ELSE Ord(Head(a)) < Ord(Head(b))

(***************************************************************************)
(* Tables.  A cell is missing (NaN/None), a number, a str or a bool; a     *)
(* column carries its pandas dtype ("int", "float", "O", "bool",           *)
(* "datetime") and,                                                        *)
(* as a history field that pandas does not keep, the input column (src)    *)
(* its values were computed from.                                          *)
(***************************************************************************)
NA == [k |-> "na"]
\* the number v / 10^e, with e = 0 or v not a multiple of 10
Dec(v, e) == [k |-> "num", v |-> v, e |-> e]
Num(n) == Dec(n, 0)
Ts(year, month, day) == [k |-> "ts", y |-> year, m |-> month, d |-> day]
NaT == [k |-> "nat"]
NumericDtypes == {"int", "float"}
Txt(s) == [k |-> "txt", s |-> s]
Bool(b) == [k |-> "bool", b |-> b]

Column(name, dtype, cells) ==
    [name |-> name, dtype |-> dtype, cells |-> cells, src |-> name]

\* len(df)
NRows(t) == IF t = <<>> THEN 0 ELSE Len(t[1].cells)

\* the subsequence of s at the positions satisfying keep
RECURSIVE SelectAt(_, _, _)
SelectAt(s, keep, i) ==
    IF i > Len(s) THEN <<>>
    ELSE (IF keep[i] THEN <<s[i]>> ELSE <<>>) \o SelectAt(s, keep, i + 1)

\* the rows of t at the positions satisfying keep
KeepRows(t, keep) ==
    [c \in 1..Len(t) |-> [t[c] EXCEPT !.cells = SelectAt(t[c].cells, keep, 1)]]

\* s.notna()
NotNa(cells) == [i \in 1..Len(cells) |-> cells[i] \notin {NA, NaT}]

\* df.drop(columns=names)
DropColumns(t, names) ==
    LET keep == [c \in 1..Len(t) |-> t[c].name \notin names]
    IN  SelectAt(t, keep, 1)

RECURSIVE Concat(_)
Concat(ss) == IF ss = <<>> THEN <<>> ELSE Head(ss) \o Concat(Tail(ss))

\* df.columns
Columns(t) == [i \in 1..Len(t) |-> t[i].name]

\* name in df.columns
InColumns(name, t) == \E i \in 1..Len(t) : t[i].name = name

\* df[name]: pandas resolves a unique label to its column
Col(t, name) == t[CHOOSE i \in 1..Len(t) : t[i].name = name]

DistinctNames(t) == \A i, j \in 1..Len(t) : t[i].name = t[j].name => i = j

\* the sequences over a set, up to a length
RECURSIVE SeqsUpTo(_, _)
SeqsUpTo(S, n) ==
    IF n = 0 THEN {<<>>}
    ELSE LET shorter == SeqsUpTo(S, n - 1)
         IN  shorter \cup {Append(s, e) : s \in shorter, e \in S}

(***************************************************************************)
(* Task3.py: find_target_column                                            *)
(***************************************************************************)
COMMON_TARGET_ALIASES ==
    << <<"p","r","i","c","e">>,
       <<"P","r","i","c","e">>,
       <<"s","e","l","l","i","n","g","_","p","r","i","c","e">>,
       <<"S","e","l","l","i","n","g","_","P","r","i","c","e">>,
       <<"s","e","l","l","i","n","g"," ","p","r","i","c","e">>,
       <<"S","e","l","l","i","n","g"," ","P","r","i","c","e">>,
       <<"t","a","r","g","e","t">>,
       <<"y">>,
       <<"l","a","b","e","l">> >>

\* c.lower().replace(" ", "_")
NormKey(c) == Replace(Lower(c), " ", "_")

\* key in {c.lower().replace(" ", "_"): c for c in df.columns}
InCandidates(key, t) == \E i \in 1..Len(t) : NormKey(t[i].name) = key

\* candidates[key]: a dict comprehension keeps the LAST column with the key
Candidates(key, t) ==
    LET last == CHOOSE i \in 1..Len(t) :
                    /\ NormKey(t[i].name) = key
                    /\ \A j \in (i + 1)..Len(t) : NormKey(t[j].name) # key
    IN  t[last].name

\* the alias loop of find_target_column
AliasMatch(t) ==
    IF \E a \in 1..Len(COMMON_TARGET_ALIASES) :
           InCandidates(NormKey(COMMON_TARGET_ALIASES[a]), t)
    THEN LET a == CHOOSE a \in 1..Len(COMMON_TARGET_ALIASES) :
                      /\ InCandidates(NormKey(COMMON_TARGET_ALIASES[a]), t)
                      /\ \A b \in 1..(a - 1) :
                             ~InCandidates(NormKey(COMMON_TARGET_ALIASES[b]), t)
         IN  Candidates(NormKey(COMMON_TARGET_ALIASES[a]), t)
    ELSE None

find_target_column(t, requested) ==
    IF requested # None /\ InCandidates(NormKey(requested), t)
    THEN Candidates(NormKey(requested), t)
    ELSE IF requested # None /\ InColumns(requested, t)
    THEN requested
    ELSE AliasMatch(t)

(***************************************************************************)
(* Task3.py: basic_preprocess                                              *)
(***************************************************************************)
ID_NAMES == { <<"c","a","r","_","n","a","m","e">>, <<"n","a","m","e">>, <<"i","d">> }

\* the sorted distinct non-missing values of a text column
RECURSIVE SortedSet(_)
SortedSet(S) ==
    IF S = {} THEN <<>>
    ELSE LET m == CHOOSE a \in S : \A b \in S : a = b \/ StrLess(a, b)
         IN  <<m>> \o SortedSet(S \ {m})
Categories(col) ==
    SortedSet({col.cells[i].s : i \in {j \in 1..Len(col.cells) : col.cells[j].k = "txt"}})

\* the indicator columns of one text column, the first category dropped
Dummies(col) ==
    LET cats == Categories(col)
    IN  [n \in 1..(Len(cats) - 1) |->
            [name  |-> col.name \o <<"_">> \o cats[n + 1],
             dtype |-> "bool",
             cells |-> [i \in 1..Len(col.cells) |-> Bool(col.cells[i] = Txt(cats[n + 1]))],
             src   |-> col.src]]

\* pd.get_dummies(df, drop_first=True): the other columns in order, then
\* the indicators of each object column in order
get_dummies(t) ==
    SelectAt(t, [c \in 1..Len(t) |-> t[c].dtype # "O"], 1)
    \o Concat([c \in 1..Len(t) |-> IF t[c].dtype = "O" THEN Dummies(t[c]) ELSE <<>>])

\* df.dropna(subset=[target_col])
DropNaTarget(t, target) == KeepRows(t, NotNa(Col(t, target).cells))

\* the drop_cols loop
DropCols(t, target) ==
    {t[c].name : c \in {i \in 1..Len(t) :
        /\ t[i].name # target
        /\ t[i].dtype = "O"
        /\ Lower(t[i].name) \in ID_NAMES}}

basic_preprocess(t, target) ==
    get_dummies(DropColumns(DropNaTarget(t, target), DropCols(DropNaTarget(t, target), target)))

\* possible = [c for c in df_proc.columns
\*             if c.lower().startswith(target_col.lower().replace(" ", "_"))]
Possible(t, target) ==
    SelectAt(Columns(t),
             [c \in 1..Len(t) |-> StartsWith(Lower(t[c].name), NormKey(target))], 1)

(***************************************************************************)
(* find_target_column as a function under test                             *)
(***************************************************************************)
MaxColsT == 3

N_Price == <<"P","r","i","c","e">>
N_price == <<"p","r","i","c","e">>
N_Selling_Price == <<"S","e","l","l","i","n","g","_","P","r","i","c","e">>
N_SellingSpPrice == <<"S","e","l","l","i","n","g"," ","P","r","i","c","e">>
N_Cost == <<"C","o","s","t">>
N_cost == <<"c","o","s","t">>
N_Year == <<"Y","e","a","r">>

NamesT == {N_Price, N_price, N_Selling_Price, N_Cost, N_Year, <<"l","a","b","e","l">>}

\* the headers a CSV can have: distinct names, in any order
TablesT ==
    {t \in SeqsUpTo({Column(n, "int", <<>>) : n \in NamesT}, MaxColsT) : DistinctNames(t)}

RequestedT == {None, N_price, N_Price, N_SellingSpPrice, N_cost, N_Year}

InitT ==
    /\ pc = "call"
    /\ df \in TablesT
    /\ args \in [target : RequestedT]
    /\ ret = None
    /\ input = None
    /\ target_col = None
    /\ df_proc = None
    /\ X = None
    /\ y = None
    /\ exit_code = 0
    /\ files = {}
    /\ rate_clean = None
    /\ dcol = None
    /\ rcol = None
    /\ monthly = None

CallFindTarget ==
    /\ pc = "call"
    /\ ret' = find_target_column(df, args.target)
    /\ pc' = "returned"
    /\ UNCHANGED <<input, args, df, target_col, df_proc, X, y, exit_code, files,
                   dcol, rcol, rate_clean, monthly>>

NextT == CallFindTarget

SpecT == InitT /\ [][NextT]_vars

\* C2: a requested name that is a column is returned as is; otherwise a
\* column equal to it after lowercasing and replacing spaces by underscores
\* is returned; the alias list decides only when the request matches no
\* column, and None is returned only when no alias matches either.
C2_RequestedColumnResolved ==
    pc = "returned" =>
        LET requested == args.target
            matches   == requested # None /\ InCandidates(NormKey(requested), df)
        IN  /\ (requested # None /\ InColumns(requested, df)) => ret = requested
            /\ matches => (InColumns(ret, df) /\ NormKey(ret) = NormKey(requested))
            /\ ~matches => ret = AliasMatch(df)
            /\ ret = None =>
                   \A a \in 1..Len(COMMON_TARGET_ALIASES) :
                       ~InCandidates(NormKey(COMMON_TARGET_ALIASES[a]), df)

(***************************************************************************)
(* Task3.py: main, one action per stage.  An exception that main does not *)
(* catch ends the interpreter with status 1; ret keeps its name.           *)
(***************************************************************************)
Exit(code) ==
    /\ pc' = "exit"
    /\ exit_code' = code

Uncaught(error) ==
    /\ Exit(1)
    /\ ret' = <<error>>

\* if not os.path.exists(args.input): sys.exit(1)
CheckInput ==
    /\ pc = "main"
    /\ IF ~input.exists
       THEN Exit(1)
       ELSE pc' = "read_csv" /\ UNCHANGED exit_code
    /\ UNCHANGED <<input, args, df, ret, target_col, df_proc, X, y, files,
                   dcol, rcol, rate_clean, monthly>>

\* df = pd.read_csv(args.input); a file without columns raises EmptyDataError
ReadCsv ==
    /\ pc = "read_csv"
    /\ IF input.table = <<>>
       THEN Uncaught("EmptyDataError") /\ UNCHANGED df
       ELSE /\ df' = input.table
            /\ pc' = "find_target"
            /\ UNCHANGED <<exit_code, ret>>
    /\ UNCHANGED <<input, args, target_col, df_proc, X, y, files, dcol, rcol, rate_clean, monthly>>

\* target_col = find_target_column(df, args.target); None: sys.exit(2)
FindTarget ==
    /\ pc = "find_target"
    /\ target_col' = find_target_column(df, args.target)
    /\ IF target_col' = None
       THEN Exit(2)
       ELSE pc' = "preprocess" /\ UNCHANGED exit_code
    /\ UNCHANGED <<input, args, df, ret, df_proc, X, y, files, dcol, rcol, rate_clean, monthly>>

\* df_proc = basic_preprocess(df, target_col) and the prefix re-match
Preprocess ==
    /\ pc = "preprocess"
    /\ df_proc' = basic_preprocess(df, target_col)
    /\ IF InColumns(target_col, df_proc')
       THEN pc' = "split_xy" /\ UNCHANGED <<target_col, exit_code>>
       ELSE IF Possible(df_proc', target_col) # <<>>
       THEN /\ target_col' = Possible(df_proc', target_col)[1]
            /\ pc' = "split_xy"
            /\ UNCHANGED exit_code
       ELSE Exit(3) /\ UNCHANGED target_col
    /\ UNCHANGED <<input, args, df, ret, X, y, files, dcol, rcol, rate_clean, monthly>>

\* X = df_proc.drop(columns=[target_col]); y = df_proc[target_col]
SplitXy ==
    /\ pc = "split_xy"
    /\ X' = DropColumns(df_proc, {target_col})
    /\ y' = Col(df_proc, target_col)
    /\ pc' = "train_test_split"
    /\ UNCHANGED <<input, args, df, ret, target_col, df_proc, exit_code, files,
                   dcol, rcol, rate_clean, monthly>>

\* train_test_split(X, y, test_size=0.2): n_test = ceil(0.2 n), the rest is
\* the train set, and an empty train set raises ValueError
TrainTestSplit ==
    /\ pc = "train_test_split"
    /\ LET n       == Len(y.cells)
           n_test  == (n + 4) \div 5
           n_train == n - n_test
       IN  IF n_train = 0
           THEN Uncaught("ValueError")
           ELSE pc' = "fit" /\ UNCHANGED <<exit_code, ret>>
    /\ UNCHANGED <<input, args, df, target_col, df_proc, X, y, files, dcol, rcol, rate_clean, monthly>>

\* model.fit(X_train, y_train): a matrix without feature columns raises ValueError
Fit ==
    /\ pc = "fit"
    /\ IF X = <<>>
       THEN Uncaught("ValueError")
       ELSE pc' = "evaluate" /\ UNCHANGED <<exit_code, ret>>
    /\ UNCHANGED <<input, args, df, target_col, df_proc, X, y, files, dcol, rcol, rate_clean, monthly>>

\* preds, mse, r2
Evaluate ==
    /\ pc = "evaluate"
    /\ pc' = "save_model"
    /\ UNCHANGED <<input, args, df, ret, target_col, df_proc, X, y, exit_code, files,
                   dcol, rcol, rate_clean, monthly>>

\* os.makedirs(args.outdir); joblib.dump(model, model_path)
SaveModel ==
    /\ pc = "save_model"
    /\ files' = files \cup {"outdir", "rf_model.joblib"}
    /\ pc' = "save_metrics"
    /\ UNCHANGED <<input, args, df, ret, target_col, df_proc, X, y, exit_code,
                   dcol, rcol, rate_clean, monthly>>

\* metrics.txt, then main returns
SaveMetrics ==
    /\ pc = "save_metrics"
    /\ files' = files \cup {"metrics.txt"}
    /\ Exit(0)
    /\ UNCHANGED <<input, args, df, ret, target_col, df_proc, X, y, dcol, rcol, rate_clean, monthly>>

(***************************************************************************)
(* Inputs of pipeline B                                                    *)
(***************************************************************************)
MaxColsB == 3

N_Car_Name == <<"C","a","r","_","N","a","m","e">>
N_Fuel == <<"F","u","e","l">>
N_id == <<"i","d">>
N_Price_old == <<"P","r","i","c","e","_","o","l","d">>

\* three data rows each; a text cell is a short word
PoolB ==
    << Column(N_Price, "int", <<Num(4), Num(6), Num(5)>>),
       Column(N_Price, "float", <<Num(4), NA, NA>>),
       Column(N_Price, "O", <<Txt(<<"l","o">>), Txt(<<"h","i">>), Txt(<<"m","i","d">>)>>),
       Column(N_Price, "O", <<Txt(<<"l","o">>), Txt(<<"l","o">>), Txt(<<"l","o">>)>>),
       Column(N_SellingSpPrice, "O", <<Txt(<<"l","o">>), Txt(<<"h","i">>), Txt(<<"m","i","d">>)>>),
       Column(N_SellingSpPrice, "float", <<Num(4), Num(6), NA>>),
       Column(N_Price_old, "int", <<Num(3), Num(5), Num(4)>>),
       Column(N_Car_Name, "O", <<Txt(<<"a">>), Txt(<<"b">>), Txt(<<"c">>)>>),
       Column(N_Fuel, "O", <<Txt(<<"g","a","s">>), Txt(<<"o","i","l">>), Txt(<<"g","a","s">>)>>),
       Column(N_id, "int", <<Num(1), Num(2), Num(3)>>),
       Column(N_Year, "int", <<Num(2014), Num(2017), Num(2014)>>),
       Column(N_Cost, "int", <<Num(7), Num(8), Num(9)>>) >>

\* the tables of at most MaxColsB pool columns, kept in pool order
RECURSIVE SubSeqsOf(_, _, _)
SubSeqsOf(pool, from, n) ==
    IF n = 0 \/ from > Len(pool) THEN {<<>>}
    ELSE SubSeqsOf(pool, from + 1, n)
         \cup {<<pool[from]>> \o rest : rest \in SubSeqsOf(pool, from + 1, n - 1)}

TablesB == {t \in SubSeqsOf(PoolB, 1, MaxColsB) : DistinctNames(t)}

RequestedB == {None, N_price, N_SellingSpPrice, N_Cost}

InitB ==
    /\ pc = "main"
    /\ input \in [exists : BOOLEAN, table : TablesB]
    /\ args \in [target : RequestedB]
    /\ df = None
    /\ ret = None
    /\ target_col = None
    /\ df_proc = None
    /\ X = None
    /\ y = None
    /\ exit_code = 0
    /\ files = {}
    /\ rate_clean = None
    /\ dcol = None
    /\ rcol = None
    /\ monthly = None

NextB ==
    \/ CheckInput
    \/ ReadCsv
    \/ FindTarget
    \/ Preprocess
    \/ SplitXy
    \/ TrainTestSplit
    \/ Fit
    \/ Evaluate
    \/ SaveModel
    \/ SaveMetrics

SpecB == InitB /\ [][NextB]_vars

\* C1: every failing run ends with the code of its first failing
\* stage and leaves no output; status 1 exactly when the input path does not
\* exist, else 2 exactly when no target resolves, else 3 exactly when the
\* target is lost in preprocessing and the prefix re-match finds nothing.
C1_FailingRunExitCodes ==
    (pc = "exit" /\ exit_code # 0) =>
        LET resolved == find_target_column(input.table, args.target)
            prep     == basic_preprocess(input.table, resolved)
            lost     == /\ resolved # None
                        /\ ~InColumns(resolved, prep)
                        /\ \A c \in 1..Len(prep) :
                               ~StartsWith(Lower(prep[c].name), NormKey(resolved))
        IN  /\ exit_code = 1 <=> ~input.exists
            /\ exit_code = 2 <=> (input.exists /\ resolved = None)
            /\ exit_code = 3 <=> (input.exists /\ lost)
            /\ files = {}

\* C8: when training is reached, X holds neither the target nor a column
\* computed from it, no column of an identifier-like text column, every
\* other numeric column, and k-1 indicators for a remaining text column of
\* k categories; y is the original target on the rows where it is present.
C8_FeatureMatrix ==
    (pc \in {"evaluate", "save_model", "save_metrics"} \/ (pc = "exit" /\ exit_code = 0)) =>
        LET target == find_target_column(df, args.target)
            rows   == NotNa(Col(df, target).cells)
            kept   == KeepRows(df, rows)
        IN  /\ \A c \in 1..Len(X) : X[c].name # target /\ X[c].src # target
            /\ \A i \in 1..Len(df) :
                   (df[i].dtype = "O" /\ Lower(df[i].name) \in ID_NAMES) =>
                       \A c \in 1..Len(X) : X[c].src # df[i].name
            /\ \A i \in 1..Len(df) :
                   (df[i].dtype \in NumericDtypes /\ df[i].name # target) =>
                       \E c \in 1..Len(X) : X[c] = kept[i]
            /\ \A i \in 1..Len(df) :
                   (/\ df[i].dtype = "O"
                    /\ df[i].name # target
                    /\ Lower(df[i].name) \notin ID_NAMES) =>
                       Cardinality({c \in 1..Len(X) : X[c].src = df[i].name})
                           = Len(Categories(kept[i])) - 1
            /\ y = Col(kept, target)

(***************************************************************************)
(* Numbers and their text, as Series.astype(str) and pd.to_numeric do it   *)
(***************************************************************************)
DigitChars == <<"0","1","2","3","4","5","6","7","8","9">>
IsDigit(ch) == \E i \in DOMAIN DigitChars : DigitChars[i] = ch
DigitVal(ch) == (CHOOSE i \in DOMAIN DigitChars : DigitChars[i] = ch) - 1
AllDigits(s) == \A i \in 1..Len(s) : IsDigit(s[i])

RECURSIVE ParseDigits(_)
ParseDigits(s) ==
    IF s = <<>> THEN 0
    ELSE 10 * ParseDigits(SubSeq(s, 1, Len(s) - 1)) + DigitVal(s[Len(s)])

RECURSIVE FormatNat(_)
FormatNat(n) ==
    IF n < 10 THEN <<DigitChars[n + 1]>>
    ELSE FormatNat(n \div 10) \o <<DigitChars[(n % 10) + 1]>>

RECURSIVE Pow10(_)
Pow10(e) == IF e = 0 THEN 1 ELSE 10 * Pow10(e - 1)

\* n written with at least w digits
RECURSIVE ZeroPad(_, _)
ZeroPad(digits, w) == IF Len(digits) >= w THEN digits ELSE ZeroPad(<<"0">> \o digits, w)

\* the float v / 10^e without trailing zeros: 1.50 is 1.5
RECURSIVE Normal(_, _)
Normal(v, e) == IF e > 0 /\ v % 10 = 0 THEN Normal(v \div 10, e - 1) ELSE Dec(v, e)

Abs(n) == IF n < 0 THEN -n ELSE n
SignText(n) == IF n < 0 THEN <<"-">> ELSE <<>>

\* str() of an int64 value
FormatInt(c) == SignText(c.v) \o FormatNat(Abs(c.v))

\* str() of a float64 value: the shortest text that reads back, "15.0" for 15
FormatFloat(c) ==
    SignText(c.v)
    \o FormatNat(Abs(c.v) \div Pow10(c.e))
    \o <<".">>
    \o (IF c.e = 0 THEN <<"0">> ELSE ZeroPad(FormatNat(Abs(c.v) % Pow10(c.e)), c.e))

\* Series.astype(str) on one cell
AsStr(c, dtype) ==
    CASE c.k = "na"   -> <<"n","a","n">>
      [] c.k = "nat"  -> <<"N","a","T">>
      [] c.k = "txt"  -> c.s
      [] c.k = "bool" -> IF c.b THEN <<"T","r","u","e">> ELSE <<"F","a","l","s","e">>
      [] c.k = "ts"   -> ZeroPad(FormatNat(c.y), 4) \o <<"-">> \o ZeroPad(FormatNat(c.m), 2)
                         \o <<"-">> \o ZeroPad(FormatNat(c.d), 2)
      [] c.k = "num"  -> IF dtype = "int" THEN FormatInt(c) ELSE FormatFloat(c)

\* the position of the first "." of s, 0 if none
DotAt(s) ==
    IF \E i \in 1..Len(s) : s[i] = "."
    THEN CHOOSE i \in 1..Len(s) : s[i] = "." /\ \A j \in 1..(i - 1) : s[j] # "."
    ELSE 0

\* digits with at most one decimal point, and at least one digit
IsUnsignedLiteral(s) ==
    LET dot == DotAt(s)
    IN  IF dot = 0 THEN s # <<>> /\ AllDigits(s)
        ELSE /\ AllDigits(SubSeq(s, 1, dot - 1))
             /\ AllDigits(SubSeq(s, dot + 1, Len(s)))
             /\ Len(s) > 1

Unsigned(s) == IF s # <<>> /\ Head(s) = "-" THEN Tail(s) ELSE s

\* a text pd.to_numeric reads as a number
IsNumberLiteral(s) == IsUnsignedLiteral(Unsigned(s))

\* a text pd.to_numeric reads as an integer
IsIntLiteral(s) == IsNumberLiteral(s) /\ DotAt(s) = 0

\* the parse of one text by pd.to_numeric(errors="coerce")
ParseNumber(s) ==
    IF ~IsNumberLiteral(s) THEN NA
    ELSE LET u    == Unsigned(s)
             dot  == DotAt(u)
             int  == IF dot = 0 THEN u ELSE SubSeq(u, 1, dot - 1)
             frac == IF dot = 0 THEN <<>> ELSE SubSeq(u, dot + 1, Len(u))
             mag  == ParseDigits(int \o frac)
         IN  Normal(IF u = s THEN mag ELSE -mag, Len(frac))

\* pd.to_numeric(s, errors="coerce") on a column of str: int64 when every
\* text is an integer, float64 otherwise, NaN for what does not parse
ToNumericCoerce(name, texts) ==
    [name  |-> name,
     dtype |-> IF \A i \in 1..Len(texts) : IsIntLiteral(texts[i]) THEN "int" ELSE "float",
     cells |-> [i \in 1..Len(texts) |-> ParseNumber(texts[i])],
     src   |-> name]

(***************************************************************************)
(* Task2.py: clean_rate_series                                             *)
(***************************************************************************)
\* a cleaner that also removes the decimal point
CleanText_DropPoint(text) == Strip(Remove(Remove(Remove(text, "%"), ","), "."))

\* .str.replace("%", "").str.replace(",", "").str.strip()
CleanText(text) == Strip(Remove(Remove(text, "%"), ","))

clean_rate_series(s) ==
    ToNumericCoerce(s.name,
        [i \in 1..Len(s.cells) |-> CleanText(AsStr(s.cells[i], s.dtype))])

(***************************************************************************)
(* clean_rate_series as a function under test, applied to its own output   *)
(***************************************************************************)
MaxRowsC == 2

N_Rate == <<"R","a","t","e">>

RawTexts ==
    { <<"5",".","5","%">>, <<" ","7"," ">>, <<"1",",","0","0","0">>, <<"1","2"," ","%">>,
      <<"7",".","0">>, <<"0",".","5","0">>, <<"-","1",".","5">>, <<"1"," ","0">>,
      <<"x">>, <<"n","/","a">>, <<"%">>, <<>> }

\* a column as read_csv types it: all integers, numbers with gaps, or text with gaps
RawColumns ==
    {Column(N_Rate, "O", c) : c \in SeqsUpTo({Txt(t) : t \in RawTexts} \cup {NA}, MaxRowsC)}
    \cup {Column(N_Rate, "float", c) : c \in SeqsUpTo({Num(7), Dec(55, 1), Dec(-125, 2), NA}, MaxRowsC)}
    \cup {Column(N_Rate, "int", c) : c \in SeqsUpTo({Num(7), Num(10)}, MaxRowsC)}

InitC ==
    /\ pc = "raw"
    /\ input \in RawColumns
    /\ df = <<input>>
    /\ ret = None
    /\ args = None
    /\ target_col = None
    /\ df_proc = None
    /\ X = None
    /\ y = None
    /\ exit_code = 0
    /\ files = {}
    /\ rate_clean = None
    /\ dcol = None
    /\ rcol = None
    /\ monthly = None

\* s = clean_rate_series(s); ret keeps the series before the call
CleanStep ==
    /\ pc \in {"raw", "once"}
    /\ ret' = df[1]
    /\ df' = <<clean_rate_series(df[1])>>
    /\ pc' = IF pc = "raw" THEN "once" ELSE "twice"
    /\ UNCHANGED <<input, args, target_col, df_proc, X, y, exit_code, files,
                   dcol, rcol, rate_clean, monthly>>

NextC == CleanStep

SpecC == InitC /\ [][NextC]_vars

HasDigit(text) == \E i \in 1..Len(text) : IsDigit(text[i])

\* C6: the cleaned column has the length of the raw one and holds only
\* numbers and missing markers, a missing cell or a text without a digit
\* becomes missing, and cleaning the cleaned column again returns the same
\* value at every position.
C6_CleanIdempotentTotal ==
    /\ pc \in {"once", "twice"} =>
           /\ Len(df[1].cells) = Len(input.cells)
           /\ df[1].dtype \in NumericDtypes
           /\ \A i \in 1..Len(input.cells) :
                  /\ df[1].cells[i].k \in {"na", "num"}
                  /\ input.cells[i] = NA => df[1].cells[i] = NA
                  /\ (input.cells[i].k = "txt" /\ ~HasDigit(input.cells[i].s)) =>
                         df[1].cells[i] = NA
                  /\ input.cells[i].k = "num" => df[1].cells[i] = input.cells[i]
    /\ pc = "twice" =>
           \A i \in 1..Len(input.cells) : df[1].cells[i] = ret.cells[i]

\* a text column cleaned twice that holds a fraction read from "5.5%" beside
\* a cell that did not parse
C6_Witness ==
    /\ pc = "twice"
    /\ \E i, j \in 1..Len(input.cells) :
           /\ input.cells[i] = Txt(<<"5",".","5","%">>)
           /\ ret.cells[i] = Dec(55, 1)
           /\ input.cells[j].k = "txt"
           /\ ret.cells[j] = NA

(***************************************************************************)
(* Task2.py: pd.to_datetime(s, dayfirst=True, errors="coerce")             *)
(***************************************************************************)
IsLeap(year) == (year % 4 = 0 /\ year % 100 # 0) \/ year % 400 = 0
DaysIn(year, month) ==
    IF month = 2 THEN (IF IsLeap(year) THEN 29 ELSE 28)
    ELSE IF month \in {4, 6, 9, 11} THEN 30 ELSE 31

DateOrNaT(year, month, day) ==
    IF month \in 1..12 /\ day >= 1 /\ day <= DaysIn(year, month)
    THEN Ts(year, month, day)
    ELSE NaT

\* one text: ISO YYYY-MM-DD, else day first DD-MM-YYYY, else NaT
ParseDate(s) ==
    IF Len(s) # 10 THEN NaT
    ELSE IF /\ s[5] = "-" /\ s[8] = "-"
            /\ AllDigits(SubSeq(s, 1, 4) \o SubSeq(s, 6, 7) \o SubSeq(s, 9, 10))
    THEN DateOrNaT(ParseDigits(SubSeq(s, 1, 4)), ParseDigits(SubSeq(s, 6, 7)),
                   ParseDigits(SubSeq(s, 9, 10)))
    ELSE IF /\ s[3] = "-" /\ s[6] = "-"
            /\ AllDigits(SubSeq(s, 1, 2) \o SubSeq(s, 4, 5) \o SubSeq(s, 7, 10))
    THEN DateOrNaT(ParseDigits(SubSeq(s, 7, 10)), ParseDigits(SubSeq(s, 4, 5)),
                   ParseDigits(SubSeq(s, 1, 2)))
    ELSE NaT

\* one cell: a number counts nanoseconds from 1970-01-01, a date stays
ToDatetimeCell(c) ==
    CASE c.k = "txt" -> ParseDate(c.s)
      [] c.k = "num" -> Ts(1970, 1, 1)
      [] c.k = "ts"  -> c
      [] OTHER       -> NaT

to_datetime(col) ==
    [col EXCEPT !.dtype = "datetime",
                !.cells = [i \in 1..Len(col.cells) |-> ToDatetimeCell(col.cells[i])]]

\* parsed.notna().sum()
ParsedCount(col) ==
    Cardinality({i \in 1..Len(col.cells) : to_datetime(col).cells[i] # NaT})

(***************************************************************************)
(* Task2.py: detect_date_column                                            *)
(***************************************************************************)
DATE_CANDIDATES ==
    << <<"D","a","t","e">>, <<"d","a","t","e">>, <<"D","A","T","E">>,
       <<"P","e","r","i","o","d">>, <<"M","o","n","t","h">> >>

ValueError == <<"ValueError">>

\* the named candidate passes the quarter test with a half threshold
CandidateOk_Half(t, c) ==
    /\ InColumns(DATE_CANDIDATES[c], t)
    /\ 2 * ParsedCount(Col(t, DATE_CANDIDATES[c])) > NRows(t)

\* c in df.columns and parsed.notna().sum() > len(df) / 4
CandidateOk(t, c) ==
    /\ InColumns(DATE_CANDIDATES[c], t)
    /\ 4 * ParsedCount(Col(t, DATE_CANDIDATES[c])) > NRows(t)

\* not numeric and parsed.notna().sum() > len(df) / 2
FallbackOk(t, i) ==
    /\ t[i].dtype \notin NumericDtypes
    /\ 2 * ParsedCount(t[i]) > NRows(t)

\* the first position that holds TRUE; callers make sure there is one
FirstTrue(flags) ==
    CHOOSE i \in 1..Len(flags) : flags[i] /\ \A j \in 1..(i - 1) : ~flags[j]

detect_date_column(t, provided) ==
    IF provided # None /\ InColumns(provided, t) THEN provided
    ELSE IF \E c \in 1..Len(DATE_CANDIDATES) : CandidateOk(t, c)
    THEN DATE_CANDIDATES[FirstTrue([c \in 1..Len(DATE_CANDIDATES) |-> CandidateOk(t, c)])]
    ELSE IF \E i \in 1..Len(t) : FallbackOk(t, i)
    THEN t[FirstTrue([i \in 1..Len(t) |-> FallbackOk(t, i)])].name
    ELSE ValueError

(***************************************************************************)
(* detect_date_column as a function under test                             *)
(***************************************************************************)
MaxRowsD == 2
MaxColsD == 2

N_Date == <<"D","a","t","e">>
N_date == <<"d","a","t","e">>
N_when == <<"w","h","e","n">>
N_val == <<"v","a","l">>
N_zzz == <<"z","z","z">>

T_iso == Txt(<<"2","0","2","0","-","0","1","-","0","5">>)
T_dmy == Txt(<<"1","3","-","0","2","-","2","0","2","0">>)
T_junk == Txt(<<"x">>)

\* a text column of n cells whose first k cells are dates
DateCells(n, k) ==
    [i \in 1..n |-> IF i > k THEN T_junk ELSE IF i = 1 THEN T_iso ELSE T_dmy]

\* the columns of n rows: text with 0..n dates, or integers
ColumnsD(n) ==
    {Column(name, "O", DateCells(n, k)) :
        name \in {N_Date, N_date, N_when, N_val}, k \in 0..n}
    \cup {Column(name, "int", [i \in 1..n |-> Num(i)]) :
        name \in {N_Date, N_date, N_when, N_val}}

TablesD ==
    UNION {{t \in SeqsUpTo(ColumnsD(n), MaxColsD) : DistinctNames(t)} : n \in 0..MaxRowsD}

InitD ==
    /\ pc = "call"
    /\ df \in TablesD
    /\ args \in [date_col : {None, N_when, N_val, N_zzz}]
    /\ ret = None
    /\ input = None
    /\ target_col = None
    /\ df_proc = None
    /\ X = None
    /\ y = None
    /\ exit_code = 0
    /\ files = {}
    /\ rate_clean = None
    /\ dcol = None
    /\ rcol = None
    /\ monthly = None

CallDetectDate ==
    /\ pc = "call"
    /\ ret' = detect_date_column(df, args.date_col)
    /\ pc' = "returned"
    /\ UNCHANGED <<input, args, df, target_col, df_proc, X, y, exit_code, files,
                   dcol, rcol, rate_clean, monthly>>

NextD == CallDetectDate

SpecD == InitD /\ [][NextD]_vars

\* the count of cells of a column that read as a date
Parseable(col) ==
    Cardinality({i \in 1..Len(col.cells) : ToDatetimeCell(col.cells[i]).k = "ts"})

\* C3: (a) a provided name that is a column is returned without a parse
\* test; (b) else the first of Date, date, DATE, Period, Month that is a
\* column with more than a quarter of its rows parseable, whatever the other
\* columns hold; (c) else the first non-numeric column in table order with
\* more than half of its rows parseable; else the ValueError.
C3_DatePolicyOrder ==
    pc = "returned" =>
        LET provided == args.date_col
            n        == NRows(df)
            named(c) == /\ InColumns(DATE_CANDIDATES[c], df)
                        /\ 4 * Parseable(Col(df, DATE_CANDIDATES[c])) > n
            scan(i)  == /\ df[i].dtype \notin NumericDtypes
                        /\ 2 * Parseable(df[i]) > n
            C        == 1..Len(DATE_CANDIDATES)
            I        == 1..Len(df)
        IN  IF provided # None /\ InColumns(provided, df)
            THEN ret = provided
            ELSE IF \E c \in C : named(c)
            THEN \E c \in C : /\ named(c)
                               /\ \A b \in 1..(c - 1) : ~named(b)
                               /\ ret = DATE_CANDIDATES[c]
            ELSE IF \E i \in I : scan(i)
            THEN \E i \in I : /\ scan(i)
                               /\ \A j \in 1..(i - 1) : ~scan(j)
                               /\ ret = df[i].name
            ELSE ret = ValueError

\* "Date" is returned with one parseable row of two, although the column
\* before it would pass the half test of the scan
C3_Witness ==
    /\ pc = "returned"
    /\ ret = N_Date
    /\ args.date_col = None
    /\ Len(df) = 2
    /\ df[2].name = N_Date
    /\ 2 * Parseable(df[2]) <= NRows(df)
    /\ df[1].dtype = "O"
    /\ 2 * Parseable(df[1]) > NRows(df)

(***************************************************************************)
(* Task2.py: detect_rate_column                                            *)
(***************************************************************************)
RATE_KEYWORDS ==
    << <<"u","n","e","m","p","l","o","y","m","e","n","t">>,
       <<"r","a","t","e">>,
       <<"e","s","t","i","m","a","t","e","d"," ","u","n","e","m","p","l","o","y","m","e","n","t">> >>

\* key in lc, for the column at position i
KeyIn(t, k, i) == Contains(Lower(t[i].name), RATE_KEYWORDS[k])

\* the keyword loops with the columns outside: the first column in table
\* order that holds any keyword
KeywordMatch_ColumnsFirst(t) ==
    IF \E i \in 1..Len(t) : \E k \in 1..Len(RATE_KEYWORDS) : KeyIn(t, k, i)
    THEN t[FirstTrue([i \in 1..Len(t) |->
                         \E k \in 1..Len(RATE_KEYWORDS) : KeyIn(t, k, i)])].name
    ELSE None

\* for key in [...]: for c, lc in zip(df.columns, lowered): if key in lc: return c
KeywordMatch(t) ==
    IF \E k \in 1..Len(RATE_KEYWORDS) : \E i \in 1..Len(t) : KeyIn(t, k, i)
    THEN LET key == FirstTrue([k \in 1..Len(RATE_KEYWORDS) |->
                                   \E i \in 1..Len(t) : KeyIn(t, k, i)])
         IN  t[FirstTrue([i \in 1..Len(t) |-> KeyIn(t, key, i)])].name
    ELSE None

\* pd.to_numeric(df[c], errors="ignore") hands the input back when a value
\* does not parse: the call raises for no column
ToNumericIgnoreRaises(col) == FALSE

\* the fallback loop: the first column whose to_numeric call returns
FallbackRate(t) ==
    IF \E i \in 1..Len(t) : ~ToNumericIgnoreRaises(t[i])
    THEN t[FirstTrue([i \in 1..Len(t) |-> ~ToNumericIgnoreRaises(t[i])])].name
    ELSE ValueError

detect_rate_column(t, provided) ==
    IF provided # None /\ InColumns(provided, t) THEN provided
    ELSE IF KeywordMatch(t) # None THEN KeywordMatch(t)
    ELSE FallbackRate(t)

(***************************************************************************)
(* detect_rate_column as a function under test                             *)
(***************************************************************************)
MaxColsR == 3

N_Unemployment == <<"U","n","e","m","p","l","o","y","m","e","n","t">>
N_UnempRate == <<"U","n","e","m","p","l","o","y","m","e","n","t"," ","R","a","t","e">>
N_Region == <<"R","e","g","i","o","n">>
N_Value == <<"V","a","l","u","e">>

\* one data row: a text that is no number, or an integer
ColumnsR ==
    {Column(name, "O", <<T_junk>>) : name \in {N_Rate, N_Unemployment, N_UnempRate, N_Region, N_Value}}
    \cup {Column(name, "int", <<Num(7)>>) : name \in {N_Rate, N_Unemployment, N_UnempRate, N_Region, N_Value}}

TablesR == {t \in SeqsUpTo(ColumnsR, MaxColsR) : DistinctNames(t)}

InitR ==
    /\ pc = "call"
    /\ df \in TablesR
    /\ args \in [rate_col : {None, N_Value, N_zzz}]
    /\ ret = None
    /\ input = None
    /\ target_col = None
    /\ df_proc = None
    /\ X = None
    /\ y = None
    /\ exit_code = 0
    /\ files = {}
    /\ rate_clean = None
    /\ dcol = None
    /\ rcol = None
    /\ monthly = None

CallDetectRate ==
    /\ pc = "call"
    /\ ret' = detect_rate_column(df, args.rate_col)
    /\ pc' = "returned"
    /\ UNCHANGED <<input, args, df, target_col, df_proc, X, y, exit_code, files,
                   dcol, rcol, rate_clean, monthly>>

NextR == CallDetectRate

SpecR == InitR /\ [][NextR]_vars

NoOverride == args.rate_col = None \/ ~InColumns(args.rate_col, df)
HoldsKeyword(name) ==
    \E k \in 1..Len(RATE_KEYWORDS) : Contains(Lower(name), RATE_KEYWORDS[k])

\* C4: without a usable override, when some column name holds a keyword the
\* result is the first column in table order whose name holds any keyword.
C4_FirstKeywordColumn ==
    (pc = "returned" /\ NoOverride /\ \E i \in 1..Len(df) : HoldsKeyword(df[i].name)) =>
        \E i \in 1..Len(df) :
            /\ HoldsKeyword(df[i].name)
            /\ \A j \in 1..(i - 1) : ~HoldsKeyword(df[j].name)
            /\ ret = df[i].name

\* C4 as amended: the keywords are tried in their order, unemployment
\* before rate: the result is the first column in table order that holds
\* "unemployment" when there is one, else the first that holds "rate"; a
\* column named "Unemployment Rate" is chosen over columns holding no
\* keyword wherever it sits.
C4_KeywordOrderThenColumnOrder ==
    (pc = "returned" /\ NoOverride /\ \E i \in 1..Len(df) : HoldsKeyword(df[i].name)) =>
        LET holds(i, key) == Contains(Lower(df[i].name), key)
            unemployment  == RATE_KEYWORDS[1]
            rate          == RATE_KEYWORDS[2]
            key == IF \E i \in 1..Len(df) : holds(i, unemployment)
                   THEN unemployment ELSE rate
        IN  /\ \E i \in 1..Len(df) :
                   /\ holds(i, key)
                   /\ \A j \in 1..(i - 1) : ~holds(j, key)
                   /\ ret = df[i].name
            /\ (\A i \in 1..Len(df) : HoldsKeyword(df[i].name) => df[i].name = N_UnempRate)
                   => ret = N_UnempRate

\* "Unemployment" is returned although a column holding "rate" precedes it
C4_Witness ==
    /\ pc = "returned"
    /\ NoOverride
    /\ Len(df) >= 2
    /\ df[1].name = N_Rate
    /\ df[2].name = N_Unemployment
    /\ ret = N_Unemployment

\* every cell of the column reads as a number
Coercible(col) ==
    \/ col.dtype \in NumericDtypes
    \/ \A i \in 1..Len(col.cells) :
           col.cells[i] = NA \/ (col.cells[i].k = "txt" /\ IsNumberLiteral(col.cells[i].s))

\* C5: without a usable override and without a keyword in any name, the
\* result is the first column in table order that can be coerced to
\* numeric, and the ValueError when no column can.
C5_FirstCoercibleColumn ==
    (pc = "returned" /\ NoOverride /\ \A i \in 1..Len(df) : ~HoldsKeyword(df[i].name)) =>
        IF \E i \in 1..Len(df) : Coercible(df[i])
        THEN \E i \in 1..Len(df) :
                 /\ Coercible(df[i])
                 /\ \A j \in 1..(i - 1) : ~Coercible(df[j])
                 /\ ret = df[i].name
        ELSE ret = ValueError

(***************************************************************************)
(* Task2.py: monthly_timeseries.  A mean is the exact fraction p / q in    *)
(* lowest terms; an entry of the series is a month with a mean or NA.      *)
(***************************************************************************)
N_YearCol == <<"Y","e","a","r">>
N_MonthCol == <<"M","o","n","t","h">>

RECURSIVE Gcd(_, _)
Gcd(a, b) == IF b = 0 THEN a ELSE Gcd(b, a % b)

Frac(p, q) ==
    LET g == Gcd(Abs(p), q)
    IN  [k |-> "frac", p |-> p \div g, q |-> q \div g]

RECURSIVE MaxExp(_)
MaxExp(cells) ==
    IF cells = <<>> THEN 0
    ELSE LET rest == MaxExp(Tail(cells))
         IN  IF Head(cells).e > rest THEN Head(cells).e ELSE rest

\* the sum of the cells in units of 10^-e
RECURSIVE SumScaled(_, _)
SumScaled(cells, e) ==
    IF cells = <<>> THEN 0
    ELSE Head(cells).v * Pow10(e - Head(cells).e) + SumScaled(Tail(cells), e)

\* the bin's total instead of its mean, 0 for an empty bin
MeanOf_Sum(cells) == Frac(SumScaled(cells, MaxExp(cells)), Pow10(MaxExp(cells)))

\* .mean() of one bin: NaN for an empty bin
MeanOf(cells) ==
    IF cells = <<>> THEN NA
    ELSE Frac(SumScaled(cells, MaxExp(cells)), Len(cells) * Pow10(MaxExp(cells)))

\* months since year 0 of the first-of-month stamp
MonthIndex(year, month) == year * 12 + (month - 1)

monthly_timeseries(t, rate_clean_col) ==
    LET year  == Col(t, N_YearCol).cells
        month == Col(t, N_MonthCol).cells
        rate  == Col(t, rate_clean_col).cells
        \* temp = df.dropna(subset=["Year", "Month", rate_clean_col])
        keep  == [i \in 1..Len(rate) |->
                     year[i] # NA /\ month[i] # NA /\ rate[i] # NA]
        \* temp["dt"] = pd.to_datetime(temp[["Year", "Month", "day"]])
        dt    == [i \in 1..Len(rate) |->
                     IF keep[i] THEN MonthIndex(year[i].v, month[i].v) ELSE 0]
        kept  == {i \in 1..Len(rate) : keep[i]}
        first == CHOOSE a \in {dt[i] : i \in kept} : \A i \in kept : a <= dt[i]
        last  == CHOOSE a \in {dt[i] : i \in kept} : \A i \in kept : a >= dt[i]
    IN  \* .resample("MS").mean(): one bin per month from the first to the last
        IF kept = {} THEN <<>>
        ELSE [b \in 1..(last - first + 1) |->
                 [y     |-> (first + b - 1) \div 12,
                  m     |-> ((first + b - 1) % 12) + 1,
                  value |-> MeanOf(SelectAt(rate,
                                [i \in 1..Len(rate) |-> keep[i] /\ dt[i] = first + b - 1], 1))]]

(***************************************************************************)
(* monthly_timeseries as a function under test                             *)
(***************************************************************************)
MaxRowsM == 3

N_Rate_clean == <<"R","a","t","e","_","c","l","e","a","n">>

\* a row: Year and Month as prepare_dataframe derives them from one date
\* (both present, or both missing for a date that did not parse), or with
\* one of them missing, and a cleaned rate or NaN
StampsM ==
    { <<Num(2020), Num(11)>>, <<Num(2021), Num(1)>>, <<NA, NA>>, <<NA, Num(1)>>,
      <<Num(2020), NA>> }
RatesM == {Num(4), Dec(55, 1), NA}
RowsM == {<<s[1], s[2], r>> : s \in StampsM, r \in RatesM}

TableM(rows) ==
    << Column(N_YearCol, "float", [i \in 1..Len(rows) |-> rows[i][1]]),
       Column(N_MonthCol, "float", [i \in 1..Len(rows) |-> rows[i][2]]),
       Column(N_Rate_clean, "float", [i \in 1..Len(rows) |-> rows[i][3]]) >>

InitM ==
    /\ pc = "call"
    /\ df \in {TableM(rows) : rows \in SeqsUpTo(RowsM, MaxRowsM)}
    /\ rate_clean = N_Rate_clean
    /\ dcol = None
    /\ rcol = None
    /\ monthly = None
    /\ ret = None
    /\ input = None
    /\ args = None
    /\ target_col = None
    /\ df_proc = None
    /\ X = None
    /\ y = None
    /\ exit_code = 0
    /\ files = {}

CallMonthly ==
    /\ pc = "call"
    /\ monthly' = monthly_timeseries(df, rate_clean)
    /\ pc' = "returned"
    /\ UNCHANGED <<input, args, df, ret, target_col, df_proc, X, y, exit_code, files,
                   dcol, rcol, rate_clean>>

NextM == CallMonthly

SpecM == InitM /\ [][NextM]_vars

\* the rows with Year, Month and rate present
Qualifying ==
    {i \in 1..NRows(df) :
        /\ Col(df, N_YearCol).cells[i] # NA
        /\ Col(df, N_MonthCol).cells[i] # NA
        /\ Col(df, rate_clean).cells[i] # NA}

\* the qualifying rows of the month of entry e
RowsOf(e) ==
    {i \in Qualifying :
        /\ Col(df, N_YearCol).cells[i].v = monthly[e].y
        /\ Col(df, N_MonthCol).cells[i].v = monthly[e].m}

\* the sum over a set of rows of their rates in hundredths
RECURSIVE RateSum(_)
RateSum(R) ==
    IF R = {} THEN 0
    ELSE LET i == CHOOSE i \in R : TRUE
             c == Col(df, rate_clean).cells[i]
         IN  c.v * Pow10(2 - c.e) + RateSum(R \ {i})

\* C7: every qualifying row falls in exactly one entry, that of its month;
\* an entry holds the mean of the rates of exactly its qualifying rows, and
\* NA (not zero) when it has none; the entries are consecutive months in
\* increasing order, from the first to the last month with a qualifying row.
C7_MonthlyPartition ==
    pc = "returned" =>
        /\ \A i \in Qualifying :
               Cardinality({e \in 1..Len(monthly) : i \in RowsOf(e)}) = 1
        /\ \A e \in 1..Len(monthly) :
               /\ monthly[e].m \in 1..12
               /\ IF RowsOf(e) = {}
                  THEN monthly[e].value = NA
                  ELSE /\ monthly[e].value.k = "frac"
                       /\ monthly[e].value.p * Cardinality(RowsOf(e)) * 100
                              = monthly[e].value.q * RateSum(RowsOf(e))
        /\ \A e \in 1..(Len(monthly) - 1) :
               MonthIndex(monthly[e + 1].y, monthly[e + 1].m)
                   = MonthIndex(monthly[e].y, monthly[e].m) + 1
        /\ monthly # <<>> => (RowsOf(1) # {} /\ RowsOf(Len(monthly)) # {})
        /\ (monthly = <<>>) = (Qualifying = {})

\* November 2020 to January 2021 with December as a gap, and a row
\* without a rate left out
C7_Witness ==
    /\ pc = "returned"
    /\ Len(monthly) = 3
    /\ monthly[1].value = Frac(11, 2)
    /\ monthly[2] = [y |-> 2020, m |-> 12, value |-> NA]
    /\ monthly[3].value = Frac(4, 1)
    /\ Qualifying # 1..NRows(df)

(***************************************************************************)
(* Task2.py: prepare_dataframe                                             *)
(***************************************************************************)
CLEAN_SUFFIX == <<"_","c","l","e","a","n">>

\* df.columns = [c.strip() for c in df.columns]
StripColumns(t) == [c \in 1..Len(t) |-> [t[c] EXCEPT !.name = Strip(t[c].name)]]

\* df[name] = col: an existing column is replaced where it stands, a new
\* one is appended
SetColumn(t, name, col) ==
    IF InColumns(name, t)
    THEN [c \in 1..Len(t) |-> IF t[c].name = name THEN [col EXCEPT !.name = name] ELSE t[c]]
    ELSE Append(t, [col EXCEPT !.name = name])

\* df[dcol].dt.year / .dt.month: NaN for NaT, which makes the column float
DtField(col, field) ==
    LET cells == [i \in 1..Len(col.cells) |->
                     IF col.cells[i].k = "ts" THEN Num(col.cells[i][field]) ELSE NA]
    IN  [name  |-> col.name,
         dtype |-> IF \E i \in 1..Len(cells) : cells[i] = NA THEN "float" ELSE "int",
         cells |-> cells,
         src   |-> col.src]

\* lines 88-90, for a detected date column
WithDates(t, date) ==
    LET parsed == SetColumn(t, date, to_datetime(Col(t, date)))
        year   == SetColumn(parsed, N_YearCol, DtField(Col(parsed, date), "y"))
    IN  SetColumn(year, N_MonthCol, DtField(Col(parsed, date), "m"))

\* line 94, for a detected rate column
WithCleanRate(t, rate) ==
    SetColumn(t, rate \o CLEAN_SUFFIX, clean_rate_series(Col(t, rate)))

(***************************************************************************)
(* Task2.py: the script, one action per stage; year_col and month_col are  *)
(* None in its only call of prepare_dataframe                              *)
(***************************************************************************)
\* os.makedirs(args.outdir, exist_ok=True)
MakeOutdir ==
    /\ pc = "makedirs"
    /\ files' = files \cup {"outdir"}
    /\ pc' = "prepare_dataframe"
    /\ UNCHANGED <<input, args, df, ret, target_col, df_proc, X, y, exit_code,
                   dcol, rcol, rate_clean, monthly>>

\* df = prepare_dataframe(args.input, args.date_col, None, None, args.rate_col)
PrepareDataframe ==
    /\ pc = "prepare_dataframe"
    /\ IF ~input.exists
       THEN Uncaught("FileNotFoundError") /\ UNCHANGED <<df, dcol, rcol>>
       ELSE IF input.table = <<>>
       THEN Uncaught("EmptyDataError") /\ UNCHANGED <<df, dcol, rcol>>
       ELSE LET read == StripColumns(input.table)
                date == detect_date_column(read, args.date_col)
            IN  IF date = ValueError
                THEN Uncaught("ValueError") /\ UNCHANGED <<df, dcol, rcol>>
                ELSE /\ dcol' = date
                     /\ rcol' = detect_rate_column(WithDates(read, date), args.rate_col)
                     /\ df' = WithCleanRate(WithDates(read, date), rcol')
                     /\ pc' = "locate"
                     /\ UNCHANGED <<exit_code, ret>>
    /\ UNCHANGED <<input, args, target_col, df_proc, X, y, files, rate_clean, monthly>>

\* rate_clean = [c for c in df.columns if c.endswith("_clean")][0]
LocateRateClean ==
    /\ pc = "locate"
    /\ rate_clean' =
           df[FirstTrue([c \in 1..Len(df) |-> EndsWith(df[c].name, CLEAN_SUFFIX)])].name
    /\ pc' = "save_preprocessed"
    /\ UNCHANGED <<input, args, df, ret, target_col, df_proc, X, y, exit_code, files,
                   dcol, rcol, monthly>>

\* df.to_csv(preproc_path, index=False)
SavePreprocessed ==
    /\ pc = "save_preprocessed"
    /\ files' = files \cup {"preprocessed_input.csv"}
    /\ pc' = "monthly_timeseries"
    /\ UNCHANGED <<input, args, df, ret, target_col, df_proc, X, y, exit_code,
                   dcol, rcol, rate_clean, monthly>>

\* monthly = monthly_timeseries(df, rate_clean); the mean of a column that
\* is not numeric raises
MonthlyTs ==
    /\ pc = "monthly_timeseries"
    /\ IF Col(df, rate_clean).dtype \notin NumericDtypes
       THEN Uncaught("TypeError") /\ UNCHANGED monthly
       ELSE /\ monthly' = monthly_timeseries(df, rate_clean)
            /\ pc' = "save_monthly"
            /\ UNCHANGED <<exit_code, ret>>
    /\ UNCHANGED <<input, args, df, target_col, df_proc, X, y, files,
                   dcol, rcol, rate_clean>>

\* monthly_timeseries.csv, the plot, "Done."
SaveMonthly ==
    /\ pc = "save_monthly"
    /\ files' = files \cup {"monthly_timeseries.csv", "monthly_timeseries.png"}
    /\ Exit(0)
    /\ UNCHANGED <<input, args, df, ret, target_col, df_proc, X, y,
                   dcol, rcol, rate_clean, monthly>>

(***************************************************************************)
(* Inputs of pipeline A                                                    *)
(***************************************************************************)
MaxColsA == 3

N_old_clean == <<"o","l","d","_","c","l","e","a","n">>

\* two data rows each
PoolA ==
    { Column(N_Date, "O", <<T_dmy, T_junk>>),
      Column(<<" ","D","a","t","e">>, "O", <<T_iso, T_dmy>>),
      Column(N_UnempRate, "O", <<Txt(<<"5",".","5","%">>), Txt(<<"7">>)>>),
      Column(N_Rate, "float", <<Dec(55, 1), NA>>),
      Column(N_old_clean, "int", <<Num(1), Num(2)>>),
      Column(N_old_clean, "O", <<T_junk, T_junk>>),
      Column(N_YearCol, "int", <<Num(1999), Num(1999)>>),
      Column(N_Value, "int", <<Num(7), Num(8)>>) }

TablesA == {t \in SeqsUpTo(PoolA, MaxColsA) : DistinctNames(StripColumns(t))}

InitA ==
    /\ pc = "makedirs"
    /\ input \in [exists : BOOLEAN, table : TablesA]
    /\ args \in [date_col : {None}, rate_col : {None, N_Value}]
    /\ df = None
    /\ ret = None
    /\ target_col = None
    /\ df_proc = None
    /\ X = None
    /\ y = None
    /\ exit_code = 0
    /\ files = {}
    /\ rate_clean = None
    /\ dcol = None
    /\ rcol = None
    /\ monthly = None

NextA ==
    \/ MakeOutdir
    \/ PrepareDataframe
    \/ LocateRateClean
    \/ SavePreprocessed
    \/ MonthlyTs
    \/ SaveMonthly

SpecA == InitA /\ [][NextA]_vars

\* C9: the table written to preprocessed_input.csv holds every column of
\* the input under its trimmed name with its cells unchanged, and the
\* derived Year, Month and <rate>_clean columns.
C9_OnlyAddsColumns ==
    "preprocessed_input.csv" \in files =>
        /\ \A i \in 1..Len(input.table) :
               /\ InColumns(Strip(input.table[i].name), df)
               /\ Col(df, Strip(input.table[i].name)).cells = input.table[i].cells
        /\ InColumns(N_YearCol, df)
        /\ InColumns(N_MonthCol, df)
        /\ InColumns(rcol \o CLEAN_SUFFIX, df)

\* C10: the column aggregated into the monthly series is the cleaned column
\* derived in this run from the detected rate column.
C10_AggregatesDerivedColumn ==
    pc \in {"save_preprocessed", "monthly_timeseries", "save_monthly", "exit"} =>
        (rate_clean # None =>
            /\ rate_clean = rcol \o CLEAN_SUFFIX
            /\ (pc \in {"save_monthly"} \/ (pc = "exit" /\ exit_code = 0)) =>
                   monthly = monthly_timeseries(df, rcol \o CLEAN_SUFFIX))

====
